---- MODULE Spec2Model ----
(***************************************************************************)
(* The four model-conversion scripts of iDENTify as one state machine.     *)
(*                                                                         *)
(*   download_and_convert_model.py  (DL)  download, locate, convert,       *)
(*                                        validate, report, clean up       *)
(*   convert_kaggle_model.py        (KG)  command-line conversion with     *)
(*                                        optional smoke test and guide    *)
(*   convert_model.py               (CM)  fixed-path conversion plus       *)
(*                                        labels.txt and config.json       *)
(*   convert_to_tflite.py           (CT)  fixed-path conversion            *)
(*                                                                         *)
(* A behaviour is a sequence of process runs of one script over one file   *)
(* system.  The third-party libraries (kaggle, ultralytics, tensorflow)    *)
(* and the operating system are the environment: every call into them      *)
(* either returns or raises, chosen nondeterministically.  File renames    *)
(* follow POSIX (the scripts target a macOS/iOS tool chain): the target of *)
(* a rename is replaced silently.                                          *)
(***************************************************************************)
EXTENDS Integers, Sequences, FiniteSets, TLC

\* Number of process runs in one behaviour.
MaxRuns == 2

DL == "download_and_convert_model.py"
KG == "convert_kaggle_model.py"
CM == "convert_model.py"
CT == "convert_to_tflite.py"
Scripts == {DL, KG, CM, CT}

(***************************************************************************)
(* Files.  A .tflite file is known by the run whose export wrote it and by *)
(* what the interpreter makes of it.                                       *)
(***************************************************************************)
None == [run |-> 0, kind |-> "none"]

\* What model.export may write: a file the interpreter cannot load, a graph
\* without output tensors, a graph whose invoke raises, and graphs with the
\* two expected output shapes and with another shape.
ExportKinds(s) ==
    IF s = KG THEN {"corrupt", "no_output", "bad_invoke",
                    "yolo_84x8400", "yolo_8400x84", "other_shape"}
    ELSE IF s = DL THEN {"corrupt", "bad_invoke", "yolo_84x8400"}
    ELSE {"corrupt", "yolo_84x8400"}

\* tf.lite.Interpreter(model_path=...) followed by allocate_tensors().
Loads(f) == f # None /\ f.kind # "corrupt"

\* interpreter.get_output_details(): the shapes of the output tensors.
get_output_details(f) ==
    CASE f.kind = "yolo_84x8400" -> << <<1, 84, 8400>> >>
      [] f.kind = "bad_invoke"   -> << <<1, 84, 8400>> >>
      [] f.kind = "yolo_8400x84" -> << <<1, 8400, 84>> >>
      [] f.kind = "other_shape"  -> << <<1, 25200, 85>> >>
      [] OTHER                   -> << >>

\* interpreter.set_tensor(...); interpreter.invoke()
Invokes(f) == Loads(f) /\ f.kind # "bad_invoke"

\* Files of the scratch directory.
BestPt == [stem |-> "best", ext |-> "pt"]
LastPt == [stem |-> "last", ext |-> "pt"]
Readme == [stem |-> "README", ext |-> "md"]
NoFile == [stem |-> "", ext |-> ""]

\* What a dataset download may unpack into the scratch directory.
Archives == {{}, {Readme}, {BestPt}, {BestPt, LastPt}}

\* The orders in which a directory scan may enumerate the entries S.
Orders(S) ==
    {o \in [1..Cardinality(S) -> S] : \A i, j \in DOMAIN o : i # j => o[i] # o[j]}

(***************************************************************************)
(* The process environment.                                                *)
(***************************************************************************)
Placeholder == "<owner>/<dataset-slug>"

\* KAGGLE_DATASET: unset, set to the empty string, set to the placeholder,
\* set to a dataset identifier.
Environs ==
    {[set |-> FALSE, value |-> ""], [set |-> TRUE, value |-> ""],
     [set |-> TRUE, value |-> Placeholder], [set |-> TRUE, value |-> "avi/aviscan-yolov11n"]}

\* os.getenv(name, default)
getenv(e, default) == IF e.set THEN e.value ELSE default

\* argparse flags of convert_kaggle_model.py; same_out: --output names the
\* path model.export returns.
NoArgs == [test |-> FALSE, guide |-> FALSE, same_out |-> FALSE]
ArgSets == [test : BOOLEAN, guide : BOOLEAN, same_out : BOOLEAN]

VARIABLES
    script,         \* the script this behaviour runs
    run,            \* number of the current (or last) process run
    pc,             \* position of the process; "idle" between runs
    environ,        \* KAGGLE_DATASET of the current run
    args,           \* command-line flags of the current run (KG)
    kaggle_dataset, \* ModelDownloader.kaggle_dataset
    temp_exists,    \* the scratch directory Scripts/temp exists
    temp_files,     \* its entries
    out_dir,        \* the directory of --output exists (KG)
    exported,       \* the file at the path the script takes the export from
    dest,           \* the file at the destination path
    guide,          \* run that wrote iOS_INTEGRATION_GUIDE.md, 0 if none
    model_files,    \* find_model_file: list(temp_dir.glob("*.pt"))
    model_file,     \* find_model_file: its return value, NoFile for None
    wrote,          \* this run's export wrote a file at that path
    faults,         \* calls of the conversion step that raised in this run
    dest0,          \* history: the file at the destination path when the run started
    steps,          \* the script's functions started in this run, in order
    failures,       \* those that raised or returned a failure indicator
    calls,          \* library and file-system calls made in this run
    log,            \* log lines of the validation of this run
    valid,          \* return value of validate_tflite_model: "none", "true", "false"
    result,         \* return value of the pipeline function: "none", "true", "false"
    uncaught,       \* the run ended with an uncaught exception
    exit_status,    \* exit status of the process, -1 while it runs
    picks           \* history: <<set of *.pt files, file chosen>> of every scan with >= 2 matches

vars == <<script, run, pc, environ, args, kaggle_dataset, temp_exists, temp_files,
          out_dir, exported, dest, guide, model_files, model_file, wrote, faults, dest0,
          steps,
          failures, calls, log, valid, result, uncaught, exit_status, picks>>

fsVars == <<temp_exists, temp_files, out_dir, exported, dest, guide>>
runVars == <<script, run, environ, args, dest0>>
convVars == <<wrote, faults>>
findVars == <<model_files, model_file, picks>>

Bool(b) == IF b THEN "true" ELSE "false"

Init ==
    /\ script \in Scripts
    /\ run = 0
    /\ pc = "idle"
    /\ environ = [set |-> FALSE, value |-> ""]
    /\ args = NoArgs
    /\ kaggle_dataset = ""
    /\ temp_exists = FALSE
    /\ temp_files = {}
    /\ out_dir = FALSE
    /\ exported = None
    /\ dest = None
    /\ guide = 0
    /\ model_files = << >>
    /\ model_file = NoFile
    /\ wrote = FALSE
    /\ faults = {}
    /\ dest0 = None
    /\ steps = << >>
    /\ failures = {}
    /\ calls = {}
    /\ log = {}
    /\ valid = "none"
    /\ result = "none"
    /\ uncaught = FALSE
    /\ exit_status = -1
    /\ picks = {}

\* The shell starts the script: a new process, nothing shared with the last
\* one but the file system.
Launch ==
    /\ pc = "idle"
    /\ run < MaxRuns
    /\ run' = run + 1
    /\ pc' = "import"
    /\ environ' \in (IF script = DL THEN Environs ELSE {[set |-> FALSE, value |-> ""]})
    /\ args' \in (IF script = KG THEN ArgSets ELSE {NoArgs})
    /\ kaggle_dataset' = ""
    /\ model_files' = << >>
    /\ model_file' = NoFile
    /\ wrote' = FALSE
    /\ faults' = {}
    /\ dest0' = dest
    /\ steps' = << >>
    /\ failures' = {}
    /\ calls' = {}
    /\ log' = {}
    /\ valid' = "none"
    /\ result' = "none"
    /\ uncaught' = FALSE
    /\ exit_status' = -1
    /\ UNCHANGED <<script, fsVars, picks>>

\* An exception nobody catches: traceback, interpreter exit status 1.
Crash(step) ==
    /\ steps' = Append(steps, step)
    /\ failures' = failures \cup {step}
    /\ uncaught' = TRUE
    /\ exit_status' = 1
    /\ pc' = "idle"

\* A step that ran; failed: it raised (and caught) or returned a failure indicator.
Ran(step, failed) ==
    /\ steps' = Append(steps, step)
    /\ failures' = IF failed THEN failures \cup {step} ELSE failures
    /\ UNCHANGED uncaught

(***************************************************************************)
(* Library and file-system calls shared by the scripts.                    *)
(***************************************************************************)

\* model.export(format='tflite', ...): it raises, or writes a fresh file of
\* this run and returns its path.  `file` is what it wrote at the path the
\* script looks at afterwards: DL and KG look at the returned path; CM and CT
\* ignore the return value and look at a fixed path, where the export may
\* not have written (file None).
ExportOutcomes(s, r) ==
    {[raises |-> TRUE, file |-> None]}
    \cup (IF s \in {CM, CT} THEN {[raises |-> FALSE, file |-> None]} ELSE {})
    \cup {[raises |-> FALSE, file |-> [run |-> r, kind |-> k]] : k \in ExportKinds(s)}

\* The file at that path after the call: a written file replaces it.
Export(old, o) == IF o.raises \/ o.file = None THEN old ELSE o.file

\* A rename that refuses an existing target (FileExistsError).
RenameNoReplace(src, dst) ==
    IF dst = None THEN [ok |-> TRUE, src |-> None, dst |-> src]
    ELSE [ok |-> FALSE, src |-> src, dst |-> dst]

\* Path.rename / os.rename / shutil.move of an existing file onto a path,
\* on a POSIX file system (the scripts run beside an Xcode project):
\* the source is gone and the target holds the source's content, whatever
\* was there before.
Rename(src, dst) == [ok |-> TRUE, src |-> None, dst |-> src]

\* The calls among `made` that the environment made raise.
Faults(made, load_ok, o, mv_ok) ==
    (IF ~load_ok THEN {"YOLO"} ELSE {})
    \cup (IF o.raises THEN made \cap {"export"} ELSE {})
    \cup (IF ~mv_ok THEN made \cap {"rename", "move"} ELSE {})

(***************************************************************************)
(* download_and_convert_model.py                                           *)
(***************************************************************************)

\* run_conversion: the steps in the order it calls them.
DL_Order ==
    <<"check_kaggle_credentials", "download_model", "find_model_file",
      "convert_to_tflite", "validate_tflite_model", "get_model_info",
      "cleanup_temp_files">>

DL_Index(step) == CHOOSE i \in DOMAIN DL_Order : DL_Order[i] = step

\* A run_conversion that goes from the conversion straight to the model info.
DL_After_skip(step) ==
    IF DL_Index(step) = Len(DL_Order) THEN "main_exit"
    ELSE IF step = "convert_to_tflite" THEN "get_model_info"
    ELSE DL_Order[DL_Index(step) + 1]

\* run_conversion: where control goes when `step` has returned success.
DL_After(step) ==
    IF DL_Index(step) = Len(DL_Order) THEN "main_exit"
    ELSE DL_Order[DL_Index(step) + 1]

\* A run_conversion that cleans the scratch directory up before `return False`.
DL_Return_cleanup(b) ==
    /\ result' = Bool(b)
    /\ pc' = IF b THEN "main_exit" ELSE "cleanup_temp_files"

\* run_conversion: `return False` / `return True`, back in main.
DL_Return(b) ==
    /\ result' = Bool(b)
    /\ pc' = "main_exit"

\* Lines 30-35: the imports at the top of the module.  A missing package is
\* an ImportError before main starts.
DL_import ==
    /\ script = DL /\ pc = "import"
    /\ \E ok \in BOOLEAN :
        IF ok
        THEN /\ pc' = "check_dependencies"
             /\ UNCHANGED <<steps, failures, uncaught, exit_status>>
        ELSE Crash("import")
    /\ UNCHANGED <<runVars, fsVars, findVars, kaggle_dataset, convVars, calls, log,
                   valid, result>>

\* check_dependencies: every package was imported at the top of the module,
\* so missing_packages is empty when this runs.
DL_check_dependencies ==
    /\ script = DL /\ pc = "check_dependencies"
    /\ Ran("check_dependencies", FALSE)
    /\ pc' = "init"
    /\ UNCHANGED <<runVars, fsVars, findVars, kaggle_dataset, convVars, calls, log,
                   valid, result, exit_status>>

\* ModelDownloader.__init__ with _create_directories: mkdir is not guarded.
DL_init ==
    /\ script = DL /\ pc = "init"
    /\ kaggle_dataset' = getenv(environ, Placeholder)
    /\ \E ok \in BOOLEAN :
        IF ok
        THEN /\ Ran("__init__", FALSE)
             /\ temp_exists' = TRUE
             /\ pc' = DL_Order[1]
             /\ UNCHANGED exit_status
        ELSE /\ Crash("__init__")
             /\ UNCHANGED temp_exists
    /\ UNCHANGED <<runVars, temp_files, out_dir, exported, dest, guide, findVars,
                   convVars, calls, log, valid, result>>

DL_check_kaggle_credentials ==
    /\ script = DL /\ pc = "check_kaggle_credentials"
    /\ calls' = calls \cup {"kaggle.api.authenticate"}
    /\ \E ok \in BOOLEAN :
        /\ Ran("check_kaggle_credentials", ~ok)
        /\ IF ok
           THEN pc' = DL_After("check_kaggle_credentials") /\ UNCHANGED result
           ELSE DL_Return(FALSE)
    /\ UNCHANGED <<runVars, fsVars, findVars, kaggle_dataset, convVars, log, valid,
                   exit_status>>

\* download_model, lines 81-85: the identifier check.
IdentifierRejected(dataset) == dataset = Placeholder

\* download_model.  The download unpacks into the scratch directory; when it
\* raises, what it had unpacked stays.
DL_download_model ==
    /\ script = DL /\ pc = "download_model"
    /\ IF IdentifierRejected(kaggle_dataset)
       THEN /\ Ran("download_model", TRUE)
            /\ DL_Return(FALSE)
            /\ UNCHANGED <<calls, temp_files>>
       ELSE /\ calls' = calls \cup {"kaggle.api.dataset_download_files"}
            /\ \E ok \in BOOLEAN, files \in Archives :
                /\ temp_files' = temp_files \cup files
                /\ Ran("download_model", ~ok)
                /\ IF ok
                   THEN pc' = DL_After("download_model") /\ UNCHANGED result
                   ELSE DL_Return(FALSE)
    /\ UNCHANGED <<runVars, temp_exists, out_dir, exported, dest, guide, findVars,
                   kaggle_dataset, convVars, log, valid, exit_status>>

\* temp_dir.glob("*.pt") over a directory scan that enumerates in `order`.
Glob(order) == SelectSeq(order, LAMBDA f : f.ext = "pt")

\* A find_model_file that falls back to a default name when nothing matches.
find_model_file_default(files) == IF files = << >> THEN BestPt ELSE files[1]

\* A find_model_file that takes the last match.
find_model_file_last(files) == IF files = << >> THEN NoFile ELSE files[Len(files)]

\* find_model_file, lines 108-115: None for an empty list, else the first.
find_model_file(files) == IF files = << >> THEN NoFile ELSE files[1]

Range(q) == {q[i] : i \in DOMAIN q}

DL_find_model_file ==
    /\ script = DL /\ pc = "find_model_file"
    /\ \E order \in Orders(IF temp_exists THEN temp_files ELSE {}) :
        /\ model_files' = Glob(order)
        /\ model_file' = find_model_file(model_files')
        /\ picks' = IF Len(model_files') >= 2
                    THEN picks \cup {<<Range(model_files'), model_file'>>}
                    ELSE picks
    /\ Ran("find_model_file", model_file' = NoFile)
    /\ IF model_file' = NoFile
       THEN DL_Return(FALSE)
       ELSE pc' = DL_After("find_model_file") /\ UNCHANGED result
    /\ UNCHANGED <<runVars, fsVars, kaggle_dataset, convVars, calls, log, valid,
                   exit_status>>

\* convert_to_tflite, lines 119-148: load, export, rename onto the target.
DL_convert_to_tflite(exp, dst, load_ok, o, mv_ok) ==
    IF ~load_ok
    THEN [ok |-> FALSE, exported |-> exp, dest |-> dst, calls |-> {"YOLO"}]
    ELSE IF o.raises
    THEN [ok |-> FALSE, exported |-> exp, dest |-> dst, calls |-> {"YOLO", "export"}]
    ELSE IF Export(exp, o) = None
    THEN [ok |-> FALSE, exported |-> exp, dest |-> dst, calls |-> {"YOLO", "export"}]
    ELSE IF ~mv_ok \/ ~Rename(Export(exp, o), dst).ok
    THEN [ok |-> FALSE, exported |-> Export(exp, o), dest |-> dst,
          calls |-> {"YOLO", "export", "rename"}]
    ELSE [ok |-> TRUE, exported |-> Rename(Export(exp, o), dst).src,
          dest |-> Rename(Export(exp, o), dst).dst,
          calls |-> {"YOLO", "export", "rename"}]

DL_convert ==
    /\ script = DL /\ pc = "convert_to_tflite"
    /\ \E load_ok \in BOOLEAN, o \in ExportOutcomes(script, run), mv_ok \in BOOLEAN :
        LET c == DL_convert_to_tflite(exported, dest, load_ok, o, mv_ok) IN
        /\ exported' = c.exported
        /\ dest' = c.dest
        /\ calls' = calls \cup c.calls
        /\ wrote' = (load_ok /\ ~o.raises /\ o.file # None)
        /\ faults' = Faults(c.calls, load_ok, o, mv_ok)
        /\ Ran("convert_to_tflite", ~c.ok)
        /\ IF c.ok
           THEN pc' = DL_After("convert_to_tflite") /\ UNCHANGED result
           ELSE DL_Return(FALSE)
    /\ UNCHANGED <<runVars, temp_exists, temp_files, out_dir, guide, findVars,
                   kaggle_dataset, log, valid, exit_status>>

\* A validation that only looks whether the file is there.
DL_validate_tflite_model_lenient(f) == f # None

\* validate_tflite_model, lines 152-179: load, allocate, one dummy inference;
\* any exception is a False.
DL_validate_tflite_model(f) == Loads(f) /\ Invokes(f)

\* run_conversion, lines 237-238: what it does with the validation's result.
DL_ValidationPasses(v) == v

DL_validate ==
    /\ script = DL /\ pc = "validate_tflite_model"
    /\ calls' = calls \cup {"Interpreter"}
    /\ valid' = Bool(DL_validate_tflite_model(dest))
    /\ Ran("validate_tflite_model", ~DL_validate_tflite_model(dest))
    /\ IF DL_ValidationPasses(DL_validate_tflite_model(dest))
       THEN pc' = DL_After("validate_tflite_model") /\ UNCHANGED result
       ELSE DL_Return(FALSE)
    /\ UNCHANGED <<runVars, fsVars, findVars, kaggle_dataset, convVars, log,
                   exit_status>>

\* get_model_info, lines 193-212: the keys of the dict it returns.
get_model_info(f) ==
    IF Loads(f)
    THEN {"model_path", "model_size_mb", "input_shape", "output_count",
          "input_type", "optimized"}
    ELSE {}

\* Step 6 of run_conversion: an empty dict only skips the log lines.
DL_get_model_info ==
    /\ script = DL /\ pc = "get_model_info"
    /\ calls' = calls \cup {"Interpreter"}
    /\ Ran("get_model_info", get_model_info(dest) = {})
    /\ pc' = DL_After("get_model_info")
    /\ UNCHANGED <<runVars, fsVars, findVars, kaggle_dataset, convVars, log, valid,
                   result, exit_status>>

\* cleanup_temp_files (a failure is a logged warning), then `return True`.
\* An rmtree that raises may have removed some of the files already.
DL_cleanup_temp_files ==
    /\ script = DL /\ pc = "cleanup_temp_files"
    /\ \E ok \in BOOLEAN :
        /\ Ran("cleanup_temp_files", ~ok)
        /\ IF temp_exists
           THEN /\ calls' = calls \cup {"rmtree"}
                /\ IF ok
                   THEN temp_exists' = FALSE /\ temp_files' = {}
                   ELSE /\ UNCHANGED temp_exists
                        /\ temp_files' \in SUBSET temp_files
           ELSE UNCHANGED <<temp_exists, temp_files, calls>>
    /\ result' = "true"
    /\ pc' = DL_After("cleanup_temp_files")
    /\ UNCHANGED <<runVars, out_dir, exported, dest, guide, findVars,
                   kaggle_dataset, convVars, log, valid, exit_status>>

\* main, lines 288-297.
DL_main_exit ==
    /\ script = DL /\ pc = "main_exit"
    /\ exit_status' = IF result = "true" THEN 0 ELSE 1
    /\ pc' = "idle"
    /\ UNCHANGED <<runVars, fsVars, findVars, kaggle_dataset, convVars, steps,
                   failures, calls, log, valid, result, uncaught>>

(***************************************************************************)
(* convert_kaggle_model.py                                                 *)
(***************************************************************************)

\* A main that logs the failed check and goes on to the output directory.
KG_Exit1_continue(step) ==
    /\ Ran(step, TRUE)
    /\ UNCHANGED exit_status
    /\ pc' = "makedirs"

\* sys.exit(1) in main.
KG_Exit1(step) ==
    /\ Ran(step, TRUE)
    /\ exit_status' = 1
    /\ pc' = "idle"

\* check_dependencies, called first in main (the heavy imports are lazy).
KG_check_dependencies ==
    /\ script = KG /\ pc = "import"
    /\ \E ok \in BOOLEAN :
        IF ok
        THEN /\ Ran("check_dependencies", FALSE)
             /\ pc' = "check_input"
             /\ UNCHANGED exit_status
        ELSE KG_Exit1("check_dependencies")
    /\ UNCHANGED <<runVars, fsVars, findVars, kaggle_dataset, convVars, calls, log,
                   valid, result>>

\* main, lines 276-279: os.path.exists(args.input).
KG_check_input ==
    /\ script = KG /\ pc = "check_input"
    /\ \E exists \in BOOLEAN :
        IF exists
        THEN /\ Ran("check_input", FALSE)
             /\ pc' = "makedirs"
             /\ UNCHANGED exit_status
        ELSE KG_Exit1("check_input")
    /\ UNCHANGED <<runVars, fsVars, findVars, kaggle_dataset, convVars, calls, log,
                   valid, result>>

\* main, lines 281-284: os.makedirs(output_dir) is not guarded.
KG_makedirs ==
    /\ script = KG /\ pc = "makedirs"
    /\ IF out_dir
       THEN /\ Ran("makedirs", FALSE)
            /\ pc' = "convert_model"
            /\ UNCHANGED <<out_dir, exit_status, calls>>
       ELSE /\ calls' = calls \cup {"makedirs"}
            /\ \E ok \in BOOLEAN :
                IF ok
                THEN /\ Ran("makedirs", FALSE)
                     /\ out_dir' = TRUE
                     /\ pc' = "convert_model"
                     /\ UNCHANGED exit_status
                ELSE /\ Crash("makedirs")
                     /\ UNCHANGED out_dir
    /\ UNCHANGED <<runVars, temp_exists, temp_files, exported, dest, guide,
                   findVars, kaggle_dataset, convVars, log, valid, result>>

\* validate_tflite_model, line 119.
ExpectedOutputShapes == {<<1, 84, 8400>>, <<1, 8400, 84>>}

\* A validation that treats a differing output shape as a failure.
KG_validate_tflite_model_strict(f) ==
    IF ~Loads(f)
    THEN [ok |-> FALSE, log |-> {"error_validating"}]
    ELSE IF get_output_details(f) = << >>
    THEN [ok |-> FALSE, log |-> {"validation_successful", "error_validating"}]
    ELSE IF get_output_details(f)[1] \in ExpectedOutputShapes
    THEN [ok |-> TRUE, log |-> {"validation_successful", "shape_matches"}]
    ELSE [ok |-> FALSE, log |-> {"validation_successful", "shape_differs"}]

\* validate_tflite_model, lines 97-131: its return value and its log lines.
\* output_details[0] of a graph without outputs is an IndexError, after the
\* success line was logged.
KG_validate_tflite_model(f) ==
    IF ~Loads(f)
    THEN [ok |-> FALSE, log |-> {"error_validating"}]
    ELSE IF get_output_details(f) = << >>
    THEN [ok |-> FALSE, log |-> {"validation_successful", "error_validating"}]
    ELSE IF get_output_details(f)[1] \in ExpectedOutputShapes
    THEN [ok |-> TRUE, log |-> {"validation_successful", "shape_matches"}]
    ELSE [ok |-> TRUE, log |-> {"validation_successful", "shape_differs"}]

\* A convert_model that returns what the validation returned.
KG_ConvertModelReturn_checked(v) == v

\* convert_model, lines 86-89: validate_tflite_model(output_path) is called
\* for its log lines; its return value is dropped.
KG_ConvertModelReturn(v) == TRUE

\* convert_model, lines 49-93.  When export reports the output path itself
\* nothing is moved; otherwise shutil.move (FileNotFoundError when the
\* reported file is not there).
KG_convert_model(exp, dst, same_out, load_ok, o, mv_ok) ==
    IF ~load_ok
    THEN [ok |-> FALSE, exported |-> exp, dest |-> dst, calls |-> {"YOLO"},
          validated |-> FALSE]
    ELSE IF o.raises
    THEN [ok |-> FALSE, exported |-> exp, dest |-> dst, calls |-> {"YOLO", "export"},
          validated |-> FALSE]
    ELSE IF same_out
    THEN [ok |-> KG_ConvertModelReturn(KG_validate_tflite_model(Export(dst, o)).ok),
          exported |-> exp, dest |-> Export(dst, o),
          calls |-> {"YOLO", "export", "Interpreter"}, validated |-> TRUE]
    ELSE IF Export(exp, o) = None \/ ~mv_ok \/ ~Rename(Export(exp, o), dst).ok
    THEN [ok |-> FALSE, exported |-> Export(exp, o), dest |-> dst,
          calls |-> {"YOLO", "export", "move"}, validated |-> FALSE]
    ELSE [ok |-> KG_ConvertModelReturn(
                    KG_validate_tflite_model(Rename(Export(exp, o), dst).dst).ok),
          exported |-> Rename(Export(exp, o), dst).src,
          dest |-> Rename(Export(exp, o), dst).dst,
          calls |-> {"YOLO", "export", "move", "Interpreter"}, validated |-> TRUE]

KG_convert ==
    /\ script = KG /\ pc = "convert_model"
    /\ \E load_ok \in BOOLEAN, o \in ExportOutcomes(script, run), mv_ok \in BOOLEAN :
        LET c == KG_convert_model(exported, dest, args.same_out, load_ok, o, mv_ok)
            v == KG_validate_tflite_model(c.dest)
        IN
        /\ exported' = c.exported
        /\ dest' = c.dest
        /\ calls' = calls \cup c.calls
        /\ wrote' = (load_ok /\ ~o.raises /\ o.file # None)
        /\ faults' = Faults(c.calls, load_ok, o, mv_ok)
        /\ valid' = IF c.validated THEN Bool(v.ok) ELSE "none"
        /\ log' = IF c.validated THEN v.log ELSE {}
        /\ steps' = steps \o <<"convert_model">>
                    \o (IF c.validated THEN <<"validate_tflite_model">> ELSE << >>)
        /\ failures' = failures
                       \cup (IF c.ok THEN {} ELSE {"convert_model"})
                       \cup (IF c.validated /\ ~v.ok THEN {"validate_tflite_model"} ELSE {})
        /\ result' = Bool(c.ok)
        /\ pc' = IF c.ok THEN "extract_model_metadata" ELSE "main_exit"
    /\ UNCHANGED <<runVars, temp_exists, temp_files, out_dir, guide, findVars,
                   kaggle_dataset, uncaught, exit_status>>

\* A main that runs the inference test whether or not --test was given.
KG_After_always_test(step, a) ==
    IF step = "extract_model_metadata" THEN "test_model_inference"
    ELSE IF step # "create_ios_integration_guide" /\ a.guide
    THEN "create_ios_integration_guide"
    ELSE "main_exit"

\* main, lines 297-306: the optional steps that follow `step`.
KG_After(step, a) ==
    IF step = "extract_model_metadata" /\ a.test THEN "test_model_inference"
    ELSE IF step # "create_ios_integration_guide" /\ a.guide
    THEN "create_ios_integration_guide"
    ELSE "main_exit"

\* extract_model_metadata, lines 171-198: None when anything raises.
extract_model_metadata(f) == Loads(f) /\ get_output_details(f) # << >>

KG_extract_model_metadata ==
    /\ script = KG /\ pc = "extract_model_metadata"
    /\ calls' = calls \cup {"Interpreter"}
    /\ Ran("extract_model_metadata", ~extract_model_metadata(dest))
    /\ pc' = KG_After("extract_model_metadata", args)
    /\ UNCHANGED <<runVars, fsVars, findVars, kaggle_dataset, convVars, log, valid,
                   result, exit_status>>

\* test_model_inference, lines 135-167: False when anything raises.
test_model_inference(f) == Invokes(f) /\ get_output_details(f) # << >>

\* main, lines 298-302: a failed test is a warning.
KG_test_model_inference ==
    /\ script = KG /\ pc = "test_model_inference"
    /\ calls' = calls \cup {"Interpreter"}
    /\ Ran("test_model_inference", ~test_model_inference(dest))
    /\ log' = log \cup (IF test_model_inference(dest)
                        THEN {"inference_test_passed"}
                        ELSE {"error_testing_inference", "inference_test_failed"})
    /\ pc' = KG_After("test_model_inference", args)
    /\ UNCHANGED <<runVars, fsVars, findVars, kaggle_dataset, convVars, valid,
                   result, exit_status>>

\* create_ios_integration_guide, lines 200-260: os.path.getsize of the output
\* and the write of the guide are not guarded.
KG_create_ios_integration_guide ==
    /\ script = KG /\ pc = "create_ios_integration_guide"
    /\ calls' = calls \cup {"getsize"}
    /\ \E ok \in BOOLEAN :
        IF dest # None /\ ok
        THEN /\ Ran("create_ios_integration_guide", FALSE)
             /\ guide' = run
             /\ pc' = KG_After("create_ios_integration_guide", args)
             /\ UNCHANGED exit_status
        ELSE /\ Crash("create_ios_integration_guide")
             /\ UNCHANGED guide
    /\ UNCHANGED <<runVars, temp_exists, temp_files, out_dir, exported, dest,
                   findVars, kaggle_dataset, convVars, log, valid, result>>

\* main, lines 291-316: falls off the end after a conversion, sys.exit(1)
\* otherwise.
KG_main_exit ==
    /\ script = KG /\ pc = "main_exit"
    /\ exit_status' = IF result = "true" THEN 0 ELSE 1
    /\ pc' = "idle"
    /\ UNCHANGED <<runVars, fsVars, findVars, kaggle_dataset, convVars, steps,
                   failures, calls, log, valid, result, uncaught>>

(***************************************************************************)
(* convert_model.py                                                        *)
(***************************************************************************)

\* Lines 6-10: the imports at the top of the module.
CM_import ==
    /\ script = CM /\ pc = "import"
    /\ \E ok \in BOOLEAN :
        IF ok
        THEN /\ pc' = "convert_yolo_to_tflite"
             /\ UNCHANGED <<steps, failures, uncaught, exit_status>>
        ELSE Crash("import")
    /\ UNCHANGED <<runVars, fsVars, findVars, kaggle_dataset, convVars, calls, log,
                   valid, result>>

\* convert_yolo_to_tflite, the try block of lines 21-53: load, export, then
\* move the file found at the fixed path "cavity detection.tflite".
CM_try_block(exp, dst, load_ok, o, mv_ok) ==
    IF ~load_ok
    THEN [ok |-> FALSE, exported |-> exp, dest |-> dst, calls |-> {"YOLO"}]
    ELSE IF o.raises
    THEN [ok |-> FALSE, exported |-> exp, dest |-> dst, calls |-> {"YOLO", "export"}]
    ELSE IF Export(exp, o) = None
    THEN [ok |-> FALSE, exported |-> exp, dest |-> dst, calls |-> {"YOLO", "export"}]
    ELSE IF ~mv_ok \/ ~Rename(Export(exp, o), dst).ok
    THEN [ok |-> FALSE, exported |-> Export(exp, o), dest |-> dst,
          calls |-> {"YOLO", "export", "move"}]
    ELSE [ok |-> TRUE, exported |-> Rename(Export(exp, o), dst).src,
          dest |-> Rename(Export(exp, o), dst).dst,
          calls |-> {"YOLO", "export", "move"}]

CM_convert ==
    /\ script = CM /\ pc = "convert_yolo_to_tflite"
    /\ \E load_ok \in BOOLEAN, o \in ExportOutcomes(script, run), mv_ok \in BOOLEAN :
        LET c == CM_try_block(exported, dest, load_ok, o, mv_ok) IN
        /\ exported' = c.exported
        /\ dest' = c.dest
        /\ calls' = calls \cup c.calls
        /\ wrote' = (load_ok /\ ~o.raises /\ o.file # None)
        /\ faults' = Faults(c.calls, load_ok, o, mv_ok)
        /\ Ran("convert_yolo_to_tflite", ~c.ok)
        /\ IF c.ok
           THEN pc' = "write_labels" /\ UNCHANGED result
           ELSE result' = "false" /\ pc' = "main_exit"
    /\ UNCHANGED <<runVars, temp_exists, temp_files, out_dir, guide, findVars,
                   kaggle_dataset, log, valid, exit_status>>

\* convert_yolo_to_tflite, lines 55-63: labels.txt, written outside the try.
CM_write_labels ==
    /\ script = CM /\ pc = "write_labels"
    /\ calls' = calls \cup {"open"}
    /\ \E ok \in BOOLEAN :
        IF ok
        THEN /\ Ran("write_labels", FALSE)
             /\ pc' = "write_config"
             /\ UNCHANGED exit_status
        ELSE Crash("write_labels")
    /\ UNCHANGED <<runVars, fsVars, findVars, kaggle_dataset, convVars, log, valid,
                   result>>

\* convert_yolo_to_tflite, lines 65-82: config.json, then `return True`.
CM_write_config ==
    /\ script = CM /\ pc = "write_config"
    /\ UNCHANGED calls
    /\ \E ok \in BOOLEAN :
        IF ok
        THEN /\ Ran("write_config", FALSE)
             /\ result' = "true"
             /\ pc' = "main_exit"
             /\ UNCHANGED exit_status
        ELSE /\ Crash("write_config")
             /\ UNCHANGED result
    /\ UNCHANGED <<runVars, fsVars, findVars, kaggle_dataset, convVars, log, valid>>

\* Lines 84-90: both branches print and fall off the end of the script.
CM_main_exit ==
    /\ script = CM /\ pc = "main_exit"
    /\ exit_status' = 0
    /\ pc' = "idle"
    /\ UNCHANGED <<runVars, fsVars, findVars, kaggle_dataset, convVars, steps,
                   failures, calls, log, valid, result, uncaught>>

(***************************************************************************)
(* convert_to_tflite.py                                                    *)
(***************************************************************************)

\* Lines 6-9: the imports at the top of the module.
CT_import ==
    /\ script = CT /\ pc = "import"
    /\ \E ok \in BOOLEAN :
        IF ok
        THEN /\ pc' = "convert_pytorch_to_tflite"
             /\ UNCHANGED <<steps, failures, uncaught, exit_status>>
        ELSE Crash("import")
    /\ UNCHANGED <<runVars, fsVars, findVars, kaggle_dataset, convVars, calls, log,
                   valid, result>>

\* convert_pytorch_to_tflite, lines 11-50: the input must exist; load,
\* export, then os.rename of the file found at the fixed export path.
convert_pytorch_to_tflite(exp, dst, input_exists, load_ok, o, mv_ok) ==
    IF ~input_exists
    THEN [ok |-> FALSE, exported |-> exp, dest |-> dst, calls |-> {}]
    ELSE IF ~load_ok
    THEN [ok |-> FALSE, exported |-> exp, dest |-> dst, calls |-> {"YOLO"}]
    ELSE IF o.raises
    THEN [ok |-> FALSE, exported |-> exp, dest |-> dst, calls |-> {"YOLO", "export"}]
    ELSE IF Export(exp, o) = None
    THEN [ok |-> FALSE, exported |-> exp, dest |-> dst, calls |-> {"YOLO", "export"}]
    ELSE IF ~mv_ok \/ ~Rename(Export(exp, o), dst).ok
    THEN [ok |-> FALSE, exported |-> Export(exp, o), dest |-> dst,
          calls |-> {"YOLO", "export", "rename"}]
    ELSE [ok |-> TRUE, exported |-> Rename(Export(exp, o), dst).src,
          dest |-> Rename(Export(exp, o), dst).dst,
          calls |-> {"YOLO", "export", "rename"}]

CT_convert ==
    /\ script = CT /\ pc = "convert_pytorch_to_tflite"
    /\ \E input_exists \in BOOLEAN, load_ok \in BOOLEAN,
          o \in ExportOutcomes(script, run), mv_ok \in BOOLEAN :
        LET c == convert_pytorch_to_tflite(exported, dest, input_exists, load_ok, o, mv_ok)
        IN
        /\ exported' = c.exported
        /\ dest' = c.dest
        /\ calls' = calls \cup c.calls
        /\ wrote' = (input_exists /\ load_ok /\ ~o.raises /\ o.file # None)
        /\ faults' = Faults(c.calls, load_ok, o, mv_ok)
        /\ Ran("convert_pytorch_to_tflite", ~c.ok)
        /\ result' = Bool(c.ok)
        /\ pc' = "main_exit"
    /\ UNCHANGED <<runVars, temp_exists, temp_files, out_dir, guide, findVars,
                   kaggle_dataset, log, valid, exit_status>>

\* Lines 52-58: both branches print and fall off the end of the script.
CT_main_exit ==
    /\ script = CT /\ pc = "main_exit"
    /\ exit_status' = 0
    /\ pc' = "idle"
    /\ UNCHANGED <<runVars, fsVars, findVars, kaggle_dataset, convVars, steps,
                   failures, calls, log, valid, result, uncaught>>

Next ==
    \/ Launch
    \/ DL_import
    \/ DL_check_dependencies
    \/ DL_init
    \/ DL_check_kaggle_credentials
    \/ DL_download_model
    \/ DL_find_model_file
    \/ DL_convert
    \/ DL_validate
    \/ DL_get_model_info
    \/ DL_cleanup_temp_files
    \/ DL_main_exit
    \/ KG_check_dependencies
    \/ KG_check_input
    \/ KG_makedirs
    \/ KG_convert
    \/ KG_extract_model_metadata
    \/ KG_test_model_inference
    \/ KG_create_ios_integration_guide
    \/ KG_main_exit
    \/ CM_import
    \/ CM_convert
    \/ CM_write_labels
    \/ CM_write_config
    \/ CM_main_exit
    \/ CT_import
    \/ CT_convert
    \/ CT_main_exit

Spec == Init /\ [][Next]_vars

(***************************************************************************)
(* Properties.                                                             *)
(***************************************************************************)

Done == pc = "idle" /\ run > 0

Last(q) == q[Len(q)]

\* The conversion step of each script.
ConversionSteps ==
    {"convert_to_tflite", "convert_model", "convert_yolo_to_tflite",
     "convert_pytorch_to_tflite"}

\* C1 as stated: in every script, whenever the pipeline function has
\* returned True the destination file exists and the interpreter loads it.
C1_SuccessImpliesLoadable ==
    result = "true" => (dest # None /\ Loads(dest))

\* C1 amended: in every script a reported success means the destination
\* file exists, but only download_and_convert_model.py ties success to a
\* loaded destination (its validation passed in that run).
\* convert_model.py and convert_to_tflite.py never load it, and
\* convert_kaggle_model.py runs its validation and ignores the result.
C1_SuccessByVariant ==
    result = "true" =>
        /\ dest # None
        /\ script = DL => (Loads(dest) /\ valid = "true")
        /\ script \in {CM, CT} => "Interpreter" \notin calls
        /\ script = KG => valid # "none"

\* A successful download-and-convert run that replaced the destination.
C1_Witness ==
    /\ script = DL /\ Done /\ result = "true" /\ exit_status = 0
    /\ dest.run = run /\ Loads(dest)

\* C2 as stated: a run that got as far as validating (conversion and
\* relocation succeeded) reports success whatever the validation returned.
C2_ValidationNeverBlocks ==
    (Done /\ valid # "none") => result = "true"

\* C2 amended: convert_kaggle_model.py reports success whatever its
\* validation returned; download_and_convert_model.py reports success
\* exactly when its validation returned True.
C2_ValidationByVariant ==
    (Done /\ valid # "none") =>
        /\ script = KG => result = "true"
        /\ script = DL => result = valid

\* A kaggle conversion whose validation failed and which reported success.
C2_Witness ==
    script = KG /\ Done /\ valid = "false" /\ result = "true"

\* C3: in convert_kaggle_model.py, for a loadable artifact with a first
\* output tensor, validate_tflite_model returns True for every shape, logs
\* the success line for [1,84,8400] and [1,8400,84] and the warning for any
\* other shape, and convert_model returns True.
C3_ShapeMismatchIsWarning ==
    (script = KG /\ valid # "none" /\ Loads(dest) /\ get_output_details(dest) # << >>) =>
        /\ valid = "true"
        /\ result = "true"
        /\ IF get_output_details(dest)[1] \in {<<1, 84, 8400>>, <<1, 8400, 84>>}
           THEN "shape_matches" \in log /\ "shape_differs" \notin log
           ELSE "shape_differs" \in log /\ "shape_matches" \notin log

\* A validated artifact of another shape: warning logged, success reported.
C3_Witness ==
    /\ script = KG /\ Done /\ valid = "true" /\ result = "true"
    /\ get_output_details(dest) = << <<1, 25200, 85>> >>
    /\ "shape_differs" \in log

\* C4 as stated: with KAGGLE_DATASET unset, empty or the placeholder,
\* download_model returns False and never calls dataset_download_files.
C4_NoDownloadWithoutIdentifier ==
    (/\ script = DL
     /\ "download_model" \in Range(steps)
     /\ (~environ.set \/ environ.value = "" \/ environ.value = "<owner>/<dataset-slug>"))
    => /\ "download_model" \in failures
       /\ "kaggle.api.dataset_download_files" \notin calls

\* C5: when the scan of the scratch directory finds no *.pt file,
\* find_model_file returns None, run_conversion returns False and nothing
\* after the locate step runs: no load, export, relocation, validation,
\* model info or cleanup.
C5_NoModelFileStops ==
    (/\ script = DL
     /\ "find_model_file" \in Range(steps)
     /\ "rmtree" \notin calls
     /\ \A f \in temp_files : f.ext # "pt")
    => /\ model_file = NoFile
       /\ result = "false"
       /\ pc \in {"main_exit", "idle"}
       /\ Last(steps) = "find_model_file"
       /\ calls \cap {"YOLO", "export", "rename", "Interpreter", "rmtree"} = {}

\* A finished run over a scratch directory that held only the README.
C5_Witness ==
    /\ script = DL /\ Done /\ temp_files = {Readme}
    /\ Last(steps) = "find_model_file" /\ result = "false" /\ exit_status = 1

\* C6 as stated: over the same set of two or more *.pt files every scan
\* selects the same file, whatever the enumeration order.
C6_Deterministic ==
    \A p, q \in picks : p[1] = q[1] => p[2] = q[2]

\* C6 amended: with two or more matches find_model_file returns exactly one
\* of them, the first in the scan's enumeration order (so the choice follows
\* that order, not the set of files), and the pipeline goes on to the
\* conversion with it.
C6_FirstEnumerated ==
    /\ \A p \in picks : p[2] \in p[1]
    /\ (script = DL /\ Len(model_files) >= 2) =>
        /\ model_file = model_files[1]
        /\ model_file.ext = "pt"
        /\ "find_model_file" \notin failures
        /\ pc # "find_model_file"
        /\ pc \in {"main_exit", "idle"} => "convert_to_tflite" \in Range(steps)

\* Over {best.pt, last.pt} one scan chose best.pt and another last.pt.
C6_Witness ==
    /\ {<<{BestPt, LastPt}, BestPt>>, <<{BestPt, LastPt}, LastPt>>} \subseteq picks
    /\ "convert_to_tflite" \in Range(steps)

\* C7 as stated: in every script exit status 0 occurs only on runs whose
\* pipeline reported success; every failure ends with a non-zero status.
C7_FailureExitsNonZero ==
    Done => (exit_status = 0 => result = "true")

\* C8 as stated: a step that fails (raises or returns a failure indicator)
\* is caught and is the last step of its run.  The imports before the
\* pipeline starts are left out.
C8_FailuresCaughtAndAbort ==
    \A i \in DOMAIN steps :
        (steps[i] \in failures /\ steps[i] # "import") => (i = Len(steps) /\ ~uncaught)

\* An existing destination never makes a run fail: when the run's export
\* wrote its file and the relocation call did not raise, the conversion
\* step succeeded.
C9_ExistingDestinationHarmless ==
    (dest0 # None /\ wrote /\ faults \cap {"rename", "move"} = {})
    => failures \cap ConversionSteps = {}

\* C9 as stated: after any successful run the destination holds exactly the
\* artifact produced by that run, and an existing destination never makes
\* the run fail.
C9_HoldsThisRunsArtifact ==
    /\ (Done /\ result = "true") => (dest # None /\ dest.run = run)
    /\ C9_ExistingDestinationHarmless

\* What every script does guarantee on a re-run: a successful run replaces
\* the destination with the file it took from the export path (one file,
\* nothing kept of the old one), and an existing destination never makes
\* the run fail.  In download_and_convert_model.py and
\* convert_kaggle_model.py that file is the run's own artifact.
\* convert_model.py and convert_to_tflite.py move whatever is at their
\* fixed export path: the run's own artifact when the export wrote there,
\* else a file an earlier run left there.
C9_OverwritesWithExported ==
    /\ (Done /\ result = "true") => dest # None
    /\ (Done /\ result = "true" /\ (wrote \/ script \in {DL, KG})) => dest.run = run
    /\ (Done /\ result = "true" /\ ~wrote) => (script \in {CM, CT} /\ dest.run < run)
    /\ (Done /\ result = "true" /\ ~args.same_out) => exported = None
    /\ C9_ExistingDestinationHarmless

\* A second successful run over the artifact of the first.
C9_Witness ==
    /\ Done /\ run = 2 /\ result = "true" /\ wrote
    /\ dest0 # None /\ dest0.run = 1 /\ dest.run = 2

\* The steps of run_conversion started so far in this run.
C10_RunConversionSteps ==
    IF Len(steps) > 2 THEN SubSeq(steps, 3, Len(steps)) ELSE << >>

\* C10: run_conversion runs credential check, download, locate, convert and
\* relocate, validate, model info, cleanup in this order, each at most once,
\* the next only after the one before has returned; it returns True after
\* all seven, or False at one step, the last one run.
C10_FixedOrderNoRetry ==
    script = DL =>
        LET order == <<"check_kaggle_credentials", "download_model", "find_model_file",
                       "convert_to_tflite", "validate_tflite_model", "get_model_info",
                       "cleanup_temp_files">>
            rc == C10_RunConversionSteps
        IN  /\ Len(rc) <= Len(order)
            /\ rc = SubSeq(order, 1, Len(rc))
            /\ (result = "none" /\ ~uncaught /\ Len(steps) >= 2) => pc = order[Len(rc) + 1]
            /\ result = "true" => (rc = order /\ failures \cap Range(SubSeq(order, 1, 5)) = {})
            /\ result = "false" =>
                /\ rc # << >>
                /\ failures \cap Range(rc) = {Last(rc)}
                /\ pc \in {"main_exit", "idle"}

\* A run that failed at the conversion, its fourth step.
C10_Witness ==
    /\ script = DL /\ Done /\ result = "false"
    /\ C10_RunConversionSteps = <<"check_kaggle_credentials", "download_model",
                                  "find_model_file", "convert_to_tflite">>

\* The steps of run_conversion that must have succeeded before the cleanup.
C11_BeforeCleanup ==
    {"check_kaggle_credentials", "download_model", "find_model_file",
     "convert_to_tflite", "validate_tflite_model"}

\* A step that deletes the scratch directory or a file in it.
C11_Deletes ==
    (temp_exists /\ ~temp_exists') \/ ~(temp_files \subseteq temp_files')

\* C11: in download_and_convert_model.py only the cleanup step deletes the
\* scratch directory or anything in it, and it runs only after credential
\* check, download, locate, conversion and validation all succeeded; a run
\* that fails, or dies of an uncaught exception, never calls
\* cleanup_temp_files and leaves the directory and its files in place; and
\* a cleanup that fails leaves the result True and the exit status 0.
C11_CleanupOnlyOnSuccess ==
    /\ [](script = DL =>
            /\ ("cleanup_temp_files" \in Range(steps) \/ "rmtree" \in calls) =>
                /\ C11_BeforeCleanup \subseteq Range(steps)
                /\ failures \cap C11_BeforeCleanup = {}
                /\ result = "true"
            /\ (result = "false" \/ uncaught) =>
                /\ "cleanup_temp_files" \notin Range(steps)
                /\ "rmtree" \notin calls
            /\ result = "false" => temp_exists
            /\ (Done /\ "cleanup_temp_files" \in failures) =>
                (result = "true" /\ exit_status = 0))
    /\ [][(script = DL /\ C11_Deletes) =>
            (pc = "cleanup_temp_files" /\ result' = "true")]_vars

\* A run that failed at the conversion with downloaded files in the scratch
\* directory, all still there.
C11_Witness ==
    /\ script = DL /\ Done /\ result = "false" /\ exit_status = 1
    /\ "convert_to_tflite" \in failures
    /\ temp_exists /\ BestPt \in temp_files

\* C12 as stated: a run that reports failure over a loadable, working
\* artifact left by an earlier run leaves that artifact at the destination.
C12_FailedRunKeepsDestination ==
    (Done /\ result = "false" /\ dest0 # None /\ Loads(dest0) /\ Invokes(dest0))
    => dest = dest0

\* What the scripts do guarantee: a run that fails before or inside its
\* conversion step leaves the destination as it found it.
C12_FailedConversionKeepsDestination ==
    (result = "false" /\ failures \cap ConversionSteps # {}) => dest = dest0

\* The position of `step` in the steps of this run, 0 when it has not run.
C13_At(step) ==
    IF step \in Range(steps)
    THEN CHOOSE i \in DOMAIN steps : steps[i] = step
    ELSE 0

\* C13: in convert_kaggle_model.py the inference test runs only with --test
\* and the guide is written only with --guide, both only after convert_model
\* returned True, the test before the guide; a run that converted and
\* finished ran each requested step.  A failing test logs the warning, is
\* followed by the guide step when --guide was given, and leaves the exit
\* status what a passing test leaves: 0, unless the guide step itself dies
\* of an exception of its own.
C13_OptionalSteps ==
    script = KG =>
        /\ "test_model_inference" \in Range(steps) =>
            /\ args.test /\ result = "true"
            /\ 0 < C13_At("convert_model")
            /\ C13_At("convert_model") < C13_At("test_model_inference")
        /\ ("create_ios_integration_guide" \in Range(steps) \/ (run > 0 /\ guide = run)) =>
            /\ args.guide /\ result = "true"
            /\ 0 < C13_At("convert_model")
            /\ C13_At("convert_model") < C13_At("create_ios_integration_guide")
            /\ args.test =>
                (0 < C13_At("test_model_inference")
                 /\ C13_At("test_model_inference") < C13_At("create_ios_integration_guide"))
        /\ (Done /\ result = "true") =>
            /\ args.test => "test_model_inference" \in Range(steps)
            /\ args.guide => "create_ios_integration_guide" \in Range(steps)
            /\ exit_status = (IF uncaught THEN 1 ELSE 0)
            /\ uncaught => Last(steps) = "create_ios_integration_guide"
        /\ "test_model_inference" \in failures =>
            /\ "inference_test_failed" \in log
            /\ "inference_test_passed" \notin log
            /\ result = "true"
            /\ (args.guide /\ "create_ios_integration_guide" \notin Range(steps))
                => pc = "create_ios_integration_guide"
            /\ (Done /\ ~args.guide) => exit_status = 0
        /\ ("test_model_inference" \in Range(steps) /\ "test_model_inference" \notin failures)
            => ("inference_test_passed" \in log /\ "inference_test_failed" \notin log)

\* A run with --test and --guide whose inference test failed: the guide was
\* written and the exit status is 0.
C13_Witness ==
    /\ script = KG /\ Done /\ args.test /\ args.guide
    /\ "test_model_inference" \in failures
    /\ "inference_test_failed" \in log
    /\ guide = run /\ exit_status = 0

\* The two checks main makes before it touches anything.
C14_Checks == {"check_dependencies", "check_input"}

\* C14: in convert_kaggle_model.py, when check_dependencies returns False or
\* the --input path does not exist, the process exits with status 1 at that
\* check: no later step runs, no library or file-system call is made (no
\* makedirs, no model load or export), and the output directory, the export
\* path, the output file and the guide are as the run found them.
C14_EarlyExitNoSideEffect ==
    /\ [](script = KG =>
            /\ failures \cap C14_Checks # {} =>
                /\ Done /\ exit_status = 1 /\ ~uncaught
                /\ Last(steps) \in C14_Checks
                /\ Range(steps) \subseteq C14_Checks
                /\ calls = {}
                /\ result = "none"
                /\ dest = dest0
                /\ guide < run
            /\ (Range(steps) \ C14_Checks # {}) =>
                (C14_Checks \subseteq Range(steps) /\ failures \cap C14_Checks = {}))
    /\ [][(script = KG /\ pc \in {"import", "check_input"}) => UNCHANGED fsVars]_vars

\* A second run that stopped at the input check, over the output directory
\* and the artifact of the first.
C14_Witness ==
    /\ script = KG /\ Done /\ run = 2
    /\ "check_input" \in failures /\ exit_status = 1
    /\ out_dir /\ dest # None /\ dest.run = 1

====
